---- MODULE Spec2Model ----
(***************************************************************************)
(* Model of the todo REST service (axum handlers over a SQLite table).     *)
(*                                                                         *)
(* The table `todos` is the only shared state.  Every request is handled   *)
(* by its own task; a task is atomic between two suspension points (the    *)
(* `.await` of a SQL statement), and SQLite executes each statement        *)
(* atomically.  A handler with one statement (get, delete) is therefore    *)
(* one action; create is two (the synchronous prefix that validates,       *)
(* mints the id and reads the clock, then the INSERT); update is two (all  *)
(* up to the clock read that follows the SELECT, then the UPDATE).         *)
(*                                                                         *)
(* Spec is every interleaving of the tasks; SpecSeq serves one request at  *)
(* a time.                                                                 *)
(*                                                                         *)
(* Option<T> is a sequence of length at most one: <<>> is None, <<x>> is   *)
(* Some(x).  A String is a sequence of characters.                         *)
(***************************************************************************)
EXTENDS Integers, Sequences, FiniteSets, TLC

\* ------------------------------------------------------------------ bounds
NumTasks == 2
MaxRequests == 2
MaxIds == 2
MaxClock == 1

Tasks == 1..NumTasks
Uuids == 1..MaxIds

\* ------------------------------------------------------------- input sets
Titles == {<<>>, <<" ">>, <<"a">>}
Descriptions == {<<"d">>}

Option(S) == {<<>>} \cup {<<x>> : x \in S}

IsSome(o) == Len(o) = 1
Unwrap(o) == o[1]
UnwrapOr(o, d) == IF IsSome(o) THEN o[1] ELSE d

\* ------------------------------------------------------- uuid and strings
\* Uuid::to_string: the hyphenated lowercase form.
UuidToString(u) == [fmt |-> "hyphenated", hex |-> u]

\* Uuid::parse_str: accepts the hyphenated and the simple form.
ParseStr(s) == IF s.fmt \in {"hyphenated", "simple"} THEN <<s.hex>> ELSE <<>>

\* The path segments a client may send: a uuid, or garbage.
PathSegments ==
  {[fmt |-> "hyphenated", hex |-> u] : u \in Uuids} \cup {[fmt |-> "garbage", hex |-> 0]}

\* Faulty variant: a generator that may repeat a value.
NewV4Reuse(generated) == Uuids
\* Uuid::new_v4: 122 random bits, modelled as a value never generated before.
\* Fresh values are interchangeable, so the least unused one stands for them.
NewV4(generated) ==
  {u \in Uuids \ generated : \A v \in Uuids \ generated : u <= v}

\* Utc::now on a monotonic clock: not before the previous reading.
UtcNow(c) == {n \in c..(c + 1) : n <= MaxClock}

\* ------------------------------------------------------------- validation
\* #[validate(length(min = 1))] on a String.
ValidateLength(s) == Len(s) >= 1

\* Faulty variant: no length rule.
ValidateCreateTodoAny(title) == TRUE
ValidateCreateTodo(title) == ValidateLength(title)

\* Faulty variant: no length rule.
ValidateUpdateTodoAny(title) == TRUE
\* On an Option<String> the rule applies only to Some.
ValidateUpdateTodo(title) == IsSome(title) => ValidateLength(Unwrap(title))

\* --------------------------------------------------------- SQL statements
\* The table: a function from the id column (text, primary key) to the
\* other columns of the row.
Row(title, description, completed, created_at, updated_at) ==
  [title |-> title, description |-> description, completed |-> completed,
   created_at |-> created_at, updated_at |-> updated_at]

\* INSERT INTO todos ... RETURNING: fails on a primary-key conflict.
SqlInsert(s, key, row) ==
  IF key \in DOMAIN s
    THEN [ok |-> FALSE, store |-> s, returned |-> <<>>]
    ELSE [ok |-> TRUE,
          store |-> [k \in DOMAIN s \cup {key} |-> IF k = key THEN row ELSE s[k]],
          returned |-> <<row>>]

\* SELECT ... WHERE id = $1, fetch_optional.
SqlSelect(s, key) == IF key \in DOMAIN s THEN <<s[key]>> ELSE <<>>

\* Faulty variants: an UPDATE that inserts when no row matches, one that
\* leaves the title column out, one that also sets created_at.
SqlUpdateUpsert(s, key, title, description, completed, ts) ==
  LET row == Row(title, description, completed, ts, ts)
  IN  [store |-> [k \in DOMAIN s \cup {key} |-> IF k = key THEN row ELSE s[k]],
       returned |-> <<row>>]
SqlUpdateKeepTitle(s, key, title, description, completed, ts) ==
  IF key \in DOMAIN s
    THEN LET row == [s[key] EXCEPT !.description = description,
                                   !.completed = completed, !.updated_at = ts]
         IN  [store |-> [s EXCEPT ![key] = row], returned |-> <<row>>]
    ELSE [store |-> s, returned |-> <<>>]
SqlUpdateTouchCreated(s, key, title, description, completed, ts) ==
  IF key \in DOMAIN s
    THEN LET row == Row(title, description, completed, ts, ts)
         IN  [store |-> [s EXCEPT ![key] = row], returned |-> <<row>>]
    ELSE [store |-> s, returned |-> <<>>]
\* UPDATE todos SET title, description, completed, updated_at WHERE id = $5
\* RETURNING ...: no matching row returns no row.
SqlUpdate(s, key, title, description, completed, ts) ==
  IF key \in DOMAIN s
    THEN LET row == [s[key] EXCEPT !.title = title, !.description = description,
                                   !.completed = completed, !.updated_at = ts]
         IN  [store |-> [s EXCEPT ![key] = row], returned |-> <<row>>]
    ELSE [store |-> s, returned |-> <<>>]

\* Faulty variant: a DELETE without its WHERE clause.
SqlDeleteAll(s, key) ==
  IF key \in DOMAIN s
    THEN [store |-> [k \in {} |-> s[k]], rows_affected |-> 1]
    ELSE [store |-> s, rows_affected |-> 0]
\* DELETE FROM todos WHERE id = $1: the number of rows affected.
SqlDelete(s, key) ==
  IF key \in DOMAIN s
    THEN [store |-> [k \in DOMAIN s \ {key} |-> s[k]], rows_affected |-> 1]
    ELSE [store |-> s, rows_affected |-> 0]

\* -------------------------------------------------------------- responses
NoTodo == <<>>

\* The Todo of a response body, built from a returned row and its parsed id.
Todo(id, row) ==
  [id |-> id, title |-> row.title, description |-> row.description,
   completed |-> row.completed, created_at |-> row.created_at,
   updated_at |-> row.updated_at]

NoResponse == [status |-> 0, err |-> "none", body |-> "none", message |-> "", todo |-> NoTodo]

\* AppError::into_response: the status and the message of each error kind,
\* always in the body {"error": message}.
ErrorStatusMessage(kind) ==
  CASE kind = "ValidationError" -> <<400, "Input validation failed">>
    [] kind = "UuidParseError" -> <<500, "Error processing identifier.">>
    [] kind = "SqlxError" -> <<500, "An internal database error occurred.">>
    [] kind = "NotFound" -> <<404, "The requested item was not found.">>
    [] OTHER -> <<500, "An unexpected error occurred.">>

\* Faulty variant: the message sent as plain text.
IntoResponsePlain(kind) ==
  [status |-> ErrorStatusMessage(kind)[1], err |-> kind, body |-> "text",
   message |-> ErrorStatusMessage(kind)[2], todo |-> NoTodo]
IntoResponse(kind) ==
  [status |-> ErrorStatusMessage(kind)[1], err |-> kind, body |-> "json_error",
   message |-> ErrorStatusMessage(kind)[2], todo |-> NoTodo]

\* The Path<Uuid> extractor of a handler's signature fails before the handler
\* body runs: the framework's rejection, a plain-text 400, is the response.
PathRejection ==
  [status |-> 400, err |-> "PathRejection", body |-> "text",
   message |-> "Invalid URL", todo |-> NoTodo]

OkTodo(status, todo) ==
  [status |-> status, err |-> "none", body |-> "todo", message |-> "", todo |-> <<todo>>]

NoContent == [status |-> 204, err |-> "none", body |-> "empty", message |-> "", todo |-> NoTodo]

\* Ok(Json(Todo { id: Uuid::parse_str(&record.id)?, .. })) with the status.
RecordResponse(status, key, row) ==
  IF IsSome(ParseStr(key))
    THEN OkTodo(status, Todo(Unwrap(ParseStr(key)), row))
    ELSE IntoResponse("UuidParseError")

\* ------------------------------------------------------------------ state
VARIABLES
  store,      \* the table todos
  clock,      \* the last reading of the clock
  generated,  \* the uuids Uuid::new_v4 has returned
  task,       \* per task in flight: its request and its locals
  last,       \* the request the last step answered, with its response
  nreq        \* requests received

vars == <<store, clock, generated, task, last, nreq>>

\* A request and the locals of its handler.  `prev` is a history field: the
\* row the request's write statement found in the table (None if none).
IdleTask ==
  [pc |-> "idle", op |-> "none", path_ok |-> TRUE, id |-> 0,
   title |-> <<>>, description |-> <<>>, completed |-> <<>>,
   current |-> <<>>, now |-> 0, stmts |-> 0, prev |-> <<>>, resp |-> NoResponse]

\* The table outlives the process (CREATE TABLE IF NOT EXISTS): the server
\* starts on an empty table, or on one holding a row that an earlier run's
\* create_todo inserted at time 0.
EmptyTable == [k \in {} |-> Row(<<>>, <<>>, FALSE, 0, 0)]
InitialTables ==
  {EmptyTable, SqlInsert(EmptyTable, UuidToString(1), Row(<<"a">>, <<>>, FALSE, 0, 0)).store}

Init ==
  /\ store \in InitialTables
  /\ clock = 0
  /\ generated = {u \in Uuids : UuidToString(u) \in DOMAIN store}
  /\ task = [t \in Tasks |-> IdleTask]
  /\ last = IdleTask
  /\ nreq = 0

Free(t) == task[t].pc = "idle"
Busy == \E t \in Tasks : ~Free(t)

\* A request is dispatched to a task of its own; tasks are interchangeable,
\* the lowest free one takes it.
Accepts(t) ==
  /\ Free(t)
  /\ \A u \in Tasks : u < t => ~Free(u)
  /\ nreq < MaxRequests

\* What `last` keeps of an answered request: all of it when it succeeded; its
\* operation, path, title and statement count when it failed (an error response
\* depends on nothing else).
Answered(rec, resp) ==
  IF resp.err = "none"
    THEN [rec EXCEPT !.pc = "done", !.resp = resp]
    ELSE [rec EXCEPT !.pc = "done", !.resp = resp, !.description = <<>>,
                     !.completed = <<>>, !.now = 0]

\* The handler returns: the response is sent and the task ends.
Respond(t, rec, resp) ==
  /\ task' = [task EXCEPT ![t] = IdleTask]
  /\ last' = Answered(rec, resp)

\* The handler suspends on its next statement; the step answers no request.
Suspend(t, rec) ==
  /\ task' = [task EXCEPT ![t] = rec]
  /\ last' = IdleTask

\* ----------------------------------------------------------------- create
\* create_todo up to the INSERT: validate, mint the id, read the clock.
CreateBegin(t, title, description) ==
  /\ Accepts(t)
  /\ nreq' = nreq + 1
  /\ LET rec == [IdleTask EXCEPT !.op = "create", !.title = <<title>>,
                                 !.description = description]
     IN  IF ~ValidateCreateTodo(title)
           THEN /\ Respond(t, rec, IntoResponse("ValidationError"))
                /\ UNCHANGED <<store, clock, generated>>
           ELSE \E u \in NewV4(generated), now \in UtcNow(clock) :
                  /\ Suspend(t, [rec EXCEPT !.pc = "insert", !.id = u, !.now = now])
                  /\ generated' = generated \cup {u}
                  /\ clock' = now
                  /\ UNCHANGED store

\* The INSERT and the response.
CreateInsert(t) ==
  /\ task[t].pc = "insert"
  /\ LET key == UuidToString(task[t].id)
         rec == [task[t] EXCEPT !.stmts = @ + 1, !.prev = SqlSelect(store, key)]
         r == SqlInsert(store, key,
                        Row(Unwrap(rec.title), rec.description, FALSE, rec.now, rec.now))
     IN  /\ store' = r.store
         /\ IF r.ok
              THEN Respond(t, rec, RecordResponse(201, key, Unwrap(r.returned)))
              ELSE Respond(t, rec, IntoResponse("SqlxError"))
  /\ UNCHANGED <<clock, generated, nreq>>

\* -------------------------------------------------------------------- get
GetTodoById(t, seg) ==
  /\ Accepts(t)
  /\ nreq' = nreq + 1
  /\ LET id == ParseStr(seg)
         rec == [IdleTask EXCEPT !.op = "get", !.path_ok = IsSome(id),
                                 !.id = UnwrapOr(id, 0)]
     IN  IF ~IsSome(id)
           THEN Respond(t, rec, PathRejection)
           ELSE LET key == UuidToString(Unwrap(id))
                    found == SqlSelect(store, key)
                    rec1 == [rec EXCEPT !.stmts = @ + 1, !.current = found]
                IN  IF IsSome(found)
                      THEN Respond(t, rec1, RecordResponse(200, key, Unwrap(found)))
                      ELSE Respond(t, rec1, IntoResponse("NotFound"))
  /\ UNCHANGED <<store, clock, generated>>

\* ----------------------------------------------------------------- update
\* update_todo up to the UPDATE: the extractors, the validation, the SELECT of
\* the current row, then the clock read that precedes the UPDATE.
UpdateRead(t, seg, title, description, completed) ==
  /\ Accepts(t)
  /\ nreq' = nreq + 1
  /\ LET id == ParseStr(seg)
         rec == [IdleTask EXCEPT !.op = "update", !.path_ok = IsSome(id),
                                 !.id = UnwrapOr(id, 0), !.title = title,
                                 !.description = description, !.completed = completed]
         found == SqlSelect(store, UuidToString(rec.id))
         rec1 == [rec EXCEPT !.stmts = @ + 1, !.current = found]
     IN  IF ~IsSome(id)
           THEN Respond(t, rec, PathRejection) /\ UNCHANGED clock
         ELSE IF ~ValidateUpdateTodo(title)
           THEN Respond(t, rec, IntoResponse("ValidationError")) /\ UNCHANGED clock
         ELSE IF ~IsSome(found)
           THEN Respond(t, rec1, IntoResponse("NotFound")) /\ UNCHANGED clock
         ELSE \E now \in UtcNow(clock) :
                /\ Suspend(t, [rec1 EXCEPT !.pc = "update", !.now = now])
                /\ clock' = now
  /\ UNCHANGED <<store, generated>>

\* The merge of the payload with the row that was read.
FinalTitle(rec) == UnwrapOr(rec.title, Unwrap(rec.current).title)
\* Faulty variant: the description falls back to the row read, as the title does.
FinalDescriptionKeep(rec) ==
  IF IsSome(rec.description) THEN rec.description ELSE Unwrap(rec.current).description
FinalDescription(rec) == rec.description
FinalCompleted(rec) == UnwrapOr(rec.completed, Unwrap(rec.current).completed)

\* The UPDATE and the response; fetch_one on no returned row is RowNotFound.
UpdateWrite(t) ==
  /\ task[t].pc = "update"
  /\ LET key == UuidToString(task[t].id)
         rec == [task[t] EXCEPT !.stmts = @ + 1, !.prev = SqlSelect(store, key)]
         r == SqlUpdate(store, key, FinalTitle(rec), FinalDescription(rec),
                        FinalCompleted(rec), rec.now)
     IN  /\ store' = r.store
         /\ IF IsSome(r.returned)
              THEN Respond(t, rec, RecordResponse(200, key, Unwrap(r.returned)))
              ELSE Respond(t, rec, IntoResponse("SqlxError"))
  /\ UNCHANGED <<clock, generated, nreq>>

\* ----------------------------------------------------------------- delete
DeleteTodo(t, seg) ==
  /\ Accepts(t)
  /\ nreq' = nreq + 1
  /\ LET id == ParseStr(seg)
         rec == [IdleTask EXCEPT !.op = "delete", !.path_ok = IsSome(id),
                                 !.id = UnwrapOr(id, 0)]
     IN  IF ~IsSome(id)
           THEN /\ Respond(t, rec, PathRejection)
                /\ UNCHANGED store
           ELSE LET key == UuidToString(Unwrap(id))
                    r == SqlDelete(store, key)
                    rec1 == [rec EXCEPT !.stmts = @ + 1, !.prev = SqlSelect(store, key)]
                IN  /\ store' = r.store
                    /\ IF r.rows_affected = 0
                         THEN Respond(t, rec1, IntoResponse("NotFound"))
                         ELSE Respond(t, rec1, NoContent)
  /\ UNCHANGED <<clock, generated>>

\* ---------------------------------------------------------- specifications
\* A request is received at any time, or only when no task is in flight.
Admit(serial) == serial => ~Busy

\* A step of task t, the update payloads' descriptions drawn from DS.
Handle(t, DS, serial) ==
  \/ \E title \in Titles, d \in Option(Descriptions) :
       Admit(serial) /\ CreateBegin(t, title, d)
  \/ CreateInsert(t)
  \/ \E seg \in PathSegments : Admit(serial) /\ GetTodoById(t, seg)
  \/ \E seg \in PathSegments, title \in Option(Titles), d \in DS, c \in Option(BOOLEAN) :
       Admit(serial) /\ UpdateRead(t, seg, title, d, c)
  \/ UpdateWrite(t)
  \/ \E seg \in PathSegments : Admit(serial) /\ DeleteTodo(t, seg)

\* Every interleaving of the tasks' steps.  The description takes no part in
\* how requests interfere: here every update payload leaves it out.
Next == \E t \in Tasks : Handle(t, {<<>>}, FALSE)

Spec == Init /\ [][Next]_vars

\* One request at a time, with every payload.
NextSeq == \E t \in Tasks : Handle(t, Option(Descriptions), TRUE)

SpecSeq == Init /\ [][NextSeq]_vars

\* ------------------------------------------------------------- properties
\* What a step answered: `last` after the step.
AnsweredOp(op) == last'.pc = "done" /\ last'.op = op

StoredUuids(s) == {u \in Uuids : UuidToString(u) \in DOMAIN s}

\* A row enters the table only for a uuid generated for it, and a uuid is
\* generated once: no row returns under the id of a deleted one.
FreshIds ==
  /\ \A t \in Tasks : (task[t].pc = "idle" /\ task'[t].pc = "insert") =>
       /\ task'[t].id \notin generated
       /\ task'[t].id \in generated'
  /\ StoredUuids(store') \subseteq generated'
  /\ \A u \in StoredUuids(store') \ StoredUuids(store) :
       \E t \in Tasks : task[t].pc = "insert" /\ task[t].id = u

\* C1: a create whose title has length >= 1 is answered 201 and adds exactly
\* one row: completed false, created_at = updated_at, title and description as
\* given, under an id no other create was given; the rows stored before are
\* unchanged.
C1_CreateStep ==
  /\ FreshIds
  /\ (AnsweredOp("create") /\ Len(Unwrap(last'.title)) >= 1) =>
       LET key == UuidToString(last'.id)
       IN  /\ last'.resp.status = 201
           /\ key \notin DOMAIN store
           /\ DOMAIN store' = DOMAIN store \cup {key}
           /\ \A k \in DOMAIN store : store'[k] = store[k]
           /\ store'[key].title = Unwrap(last'.title)
           /\ store'[key].description = last'.description
           /\ store'[key].completed = FALSE
           /\ store'[key].created_at = store'[key].updated_at
           /\ last'.resp.todo = <<Todo(last'.id, store'[key])>>
C1_CreateAddsOneTodo == [][C1_CreateStep]_vars

C1_Witness ==
  /\ last.op = "create"
  /\ last.resp.status = 201
  /\ last.description = <<"d">>
  /\ Cardinality(DOMAIN store) = 2

\* C2: served alone, an update answered 200 writes the payload's title and
\* completed where present and the stored ones otherwise, and always the
\* payload's description (None when absent); the row's id and created_at and
\* every other row are unchanged.
C2_UpdateStep ==
  (AnsweredOp("update") /\ last'.resp.status = 200) =>
    LET key == UuidToString(last'.id)
    IN  /\ key \in DOMAIN store
        /\ DOMAIN store' = DOMAIN store
        /\ \A k \in DOMAIN store \ {key} : store'[k] = store[k]
        /\ store'[key].title = UnwrapOr(last'.title, store[key].title)
        /\ store'[key].completed = UnwrapOr(last'.completed, store[key].completed)
        /\ store'[key].description = last'.description
        /\ store'[key].created_at = store[key].created_at
        /\ last'.resp.todo = <<Todo(last'.id, store'[key])>>
C2_UpdateMerge == [][C2_UpdateStep]_vars

C2_Witness ==
  /\ last.op = "update"
  /\ last.resp.status = 200
  /\ last.title = <<>>
  /\ last.completed = <<TRUE>>
  /\ last.description = <<>>
  /\ Unwrap(last.prev).description = <<"d">>
  /\ Unwrap(last.resp.todo).description = <<>>
  /\ Unwrap(last.resp.todo).title = Unwrap(last.prev).title

\* C3: a create or update whose title is present and empty is answered 400,
\* by the validation when its path decodes, without a statement issued or a
\* row changed, and is never left in flight.
EmptyTitle == <<<<>>>>
C3_ValidationStep ==
  /\ \A t \in Tasks : task'[t].pc # "idle" => task'[t].title # EmptyTitle
  /\ (last'.pc = "done" /\ last'.op \in {"create", "update"} /\ last'.title = EmptyTitle) =>
       /\ last'.resp.status = 400
       /\ last'.path_ok => last'.resp = IntoResponse("ValidationError")
       /\ last'.stmts = 0
       /\ store' = store
C3_EmptyTitleRejected == [][C3_ValidationStep]_vars

C3_Witness ==
  /\ last.op = "update"
  /\ last.title = EmptyTitle
  /\ last.path_ok
  /\ last.resp.status = 400
  /\ UuidToString(last.id) \in DOMAIN store

\* C4: a delete of a stored id is answered 204 and removes that row alone; a
\* delete or a get of an id not stored is answered 404 and changes nothing;
\* the id of a deleted row is never stored again.
C4_DeleteStep ==
  /\ FreshIds
  /\ (AnsweredOp("delete") /\ last'.path_ok) =>
       LET key == UuidToString(last'.id)
       IN  IF key \in DOMAIN store
             THEN /\ last'.resp = NoContent
                  /\ DOMAIN store' = DOMAIN store \ {key}
                  /\ \A k \in DOMAIN store' : store'[k] = store[k]
             ELSE /\ last'.resp = IntoResponse("NotFound")
                  /\ last'.resp.status = 404
                  /\ store' = store
  /\ (AnsweredOp("get") /\ last'.path_ok /\ UuidToString(last'.id) \notin DOMAIN store) =>
       /\ last'.resp.status = 404
       /\ store' = store
C4_DeleteAndMissing == [][C4_DeleteStep]_vars

\* A delete of an id that was stored and deleted before, answered 404.
C4_Witness ==
  /\ last.op = "delete"
  /\ last.resp.status = 404
  /\ last.id \in generated
  /\ \A t \in Tasks : task[t].pc = "idle"

\* C5: an update answered 200 writes an updated_at that is not before the one
\* the row held just before the write.
C5_UpdateStep ==
  (AnsweredOp("update") /\ last'.resp.status = 200) =>
    store'[UuidToString(last'.id)].updated_at >= store[UuidToString(last'.id)].updated_at
C5_UpdatedAtAdvances == [][C5_UpdateStep]_vars

\* C6: every stored row has created_at <= updated_at, and the created_at of a
\* row never changes.
C6_TimestampStep ==
  /\ \A k \in DOMAIN store' : store'[k].created_at <= store'[k].updated_at
  /\ \A k \in DOMAIN store \cap DOMAIN store' : store'[k].created_at = store[k].created_at
C6_CreatedBeforeUpdated == [][C6_TimestampStep]_vars

C6_Witness ==
  /\ last.op = "update"
  /\ last.resp.status = 200
  /\ \E k \in DOMAIN store : store[k].created_at < store[k].updated_at

IsWhitespaceOnly(s) == \A i \in 1..Len(s) : s[i] = " "

\* C7 as stated: no stored title is empty or whitespace-only.
C7_NoBlankTitle ==
  \A k \in DOMAIN store : Len(store[k].title) >= 1 /\ ~IsWhitespaceOnly(store[k].title)

\* C7, amended: no stored title is empty (a whitespace-only title is stored
\* as it is).
C7_NoEmptyTitle == \A k \in DOMAIN store : Len(store[k].title) >= 1

C7_Witness ==
  \E k \in DOMAIN store : Len(store[k].title) >= 1 /\ IsWhitespaceOnly(store[k].title)

C8_ErrorStep ==
  /\ (last'.pc = "done" /\ ~last'.path_ok) =>
       /\ last'.op \in {"get", "update", "delete"}
       /\ last'.resp.status = 400
       /\ last'.resp.body = "text"
       /\ last'.stmts = 0
       /\ store' = store
  /\ (last'.pc = "done" /\ last'.path_ok /\ last'.resp.status >= 300) =>
       /\ last'.resp.body = "json_error"
       /\ last'.resp.err \in {"ValidationError", "SqlxError", "NotFound"}
       /\ last'.resp.status = ErrorStatusMessage(last'.resp.err)[1]
       /\ last'.resp.message = ErrorStatusMessage(last'.resp.err)[2]
C9_WriteStep ==
  (AnsweredOp("update") /\ last'.resp.status = 200) =>
    LET key == UuidToString(last'.id)
    IN  /\ IsSome(last'.current)
        /\ store'[key].title = UnwrapOr(last'.title, Unwrap(last'.current).title)
        /\ store'[key].completed = UnwrapOr(last'.completed, Unwrap(last'.current).completed)
C9_LastWriteWins == [][C9_WriteStep]_vars

\* The lost update: an update of completed alone has been answered 200, the
\* row it overwrote held a title another update had committed since its read,
\* and the row holds the title it read again.
C9_Witness ==
  /\ last.op = "update"
  /\ last.resp.status = 200
  /\ last.title = <<>>
  /\ IsSome(last.completed)
  /\ Unwrap(last.prev).title # Unwrap(last.current).title
  /\ Unwrap(last.prev).completed = Unwrap(last.current).completed
  /\ store[UuidToString(last.id)].title = Unwrap(last.current).title
  /\ store[UuidToString(last.id)].completed = Unwrap(last.completed)
  /\ store[UuidToString(last.id)].completed # Unwrap(last.current).completed

\* C10: an update that is not answered 200 changes no row, and an update never
\* stores a row under an id that is not stored: when the row it read has been
\* deleted before its write, the write matches nothing and the answer is the
\* storage error, 500.
C10_FailedUpdateStep ==
  /\ store' # store => last'.pc = "done" /\ last'.resp.status \in {200, 201, 204}
  /\ AnsweredOp("update") =>
       LET key == UuidToString(last'.id)
       IN  /\ last'.resp.status # 200 => store' = store
           /\ key \notin DOMAIN store =>
                /\ key \notin DOMAIN store'
                /\ last'.resp.status # 200
           /\ (IsSome(last'.current) /\ key \notin DOMAIN store) =>
                /\ last'.resp = IntoResponse("SqlxError")
                /\ last'.resp.status = 500
C10_UpdateNeverRecreates == [][C10_FailedUpdateStep]_vars

C10_Witness ==
  /\ last.op = "update"
  /\ last.resp.status = 500
  /\ last.resp.err = "SqlxError"
  /\ IsSome(last.current)
  /\ UuidToString(last.id) \notin DOMAIN store

====
